---- MODULE Spec2Model ----
(***************************************************************************)
(* d3dgl: the buffer object (D3DGLBufferObject) and the command queue it   *)
(* submits GL work to.  Producer threads call init_common, Lock, Unlock,   *)
(* resetBufferData and the destructor; the consumer thread owns the GL     *)
(* context and executes the queued commands in order.                      *)
(*                                                                         *)
(* The buffer object is translated from the buffer object's source file.   *)
(* The command queue (send, sendSync, lock, doSend, sendAndUnlock and the  *)
(* consumer's drain loop) is not part of the available sources; it is      *)
(* modelled from its written contract: a FIFO with a mutual-exclusion      *)
(* guard held by producers while they append, and a consumer that takes    *)
(* the oldest pending command, executes it and signals a producer blocked  *)
(* in a synchronous submission.                                            *)
(***************************************************************************)
EXTENDS Integers, Sequences, FiniteSets, TLC

\* ------------------------------------------------------------- bounds
\* UINT is modelled UIntBits wide (the program's UINT is 32 bits wide).
UIntBits == 6
\* Commands submitted over one run of the model: with two client threads,
\* and with one.
MaxCmds == 4
MaxCmdsSeq == 3
\* The 5000 ms the device's destructor waits for its thread, in clock ticks.
WaitTicks == 5

RECURSIVE Pow2(_)
Pow2(n) == IF n = 0 THEN 1 ELSE 2 * Pow2(n - 1)
Modulus == Pow2(UIntBits)
MaxUInt == Modulus - 1

\* ---------------------------------------------------- program constants
\* The staging buffer and the GL store are sized (mLength+15) & ~15.
AlignMask == 15

Producers == {"p1", "p2"}
NoThread == "none"

LT_Unlocked == "LT_Unlocked"
LT_ReadOnly == "LT_ReadOnly"
LT_Full == "LT_Full"

D3DLOCK_READONLY == "READONLY"
D3DLOCK_NOOVERWRITE == "NOOVERWRITE"
D3DLOCK_DISCARD == "DISCARD"
D3DLOCK_NOSYSLOCK == "NOSYSLOCK"

D3DUSAGE_DYNAMIC == "DYNAMIC"
D3DUSAGE_WRITEONLY == "WRITEONLY"

D3DPOOL_DEFAULT == "DEFAULT"
D3DPOOL_MANAGED == "MANAGED"
D3DPOOL_SCRATCH == "SCRATCH"

D3D_OK == "D3D_OK"
D3DERR_INVALIDCALL == "D3DERR_INVALIDCALL"

\* A null shared_ptr / a null GL name.
Null == 0

VARIABLES
    obj,                \* lifetime of the object: "none", "init", "live", "failed", "dying", "dead"
    mLength, mUsage, mPool, mBufferId,
    mLock, mLockedOffset, mLockedLength,
    mUpdateInProgress,
    mBufData,           \* the allocation mBufData owns (Null: none)
    heap,               \* live allocations: id -> capacity in bytes
    glSize,             \* size of the GL buffer's data store (-1: no store)
    queue,              \* pending commands, oldest first
    qOwner,             \* the producer holding the queue's guard
    acked,              \* producers whose synchronous command has been executed
    pc, call, ret,      \* per producer: position, arguments of the call, result
    sent,               \* per producer: the commands the current call submitted
    lockCall,           \* history: the Lock call that holds the lock, and whether
                        \* another Lock was tried on the locked buffer since
    subLog,             \* history: submitter and kind of every command, by tag
    execLog,            \* history: the tags of the executed commands, in order
    bufBytes,           \* what the logical bytes of *mBufData hold
    handleUse,          \* history: who has read or written mBufferId, and where
    lockHolders         \* history: the callers whose Lock took the lock that is held

\* The device (Direct3DGLDevice) and its dedicated thread.
VARIABLES
    devObj,             \* lifetime of the device: "constructed", "init", "ready", "failed", "dying", "dead"
    mGLContext, mThreadHdl, mThreadId,
    mPresentParams,     \* BackBufferCount, the lockable-backbuffer flag, EnableAutoDepthStencil
    glContext,          \* the GL context itself: "none", "live", "deleted"
    thread,             \* the dedicated thread: "none", "started", "greeted", "exited"
    msgQueue,           \* the dedicated thread has a message queue
    quitPosted,         \* WM_QUIT is in that queue
    threadHandle,       \* the handle CreateThread returned: "none", "open", "closed"
    devPc,              \* position of the thread that owns the device
    elapsed             \* ticks spent in WaitForSingleObject

devVars == <<devObj, mGLContext, mThreadHdl, mThreadId, mPresentParams,
             glContext, thread, msgQueue, quitPosted, threadHandle, devPc,
             elapsed>>

bufVars == <<obj, mLength, mUsage, mPool, mBufferId, mLock, mLockedOffset,
             mLockedLength, mUpdateInProgress, mBufData, heap>>
vars == <<obj, mLength, mUsage, mPool, mBufferId, mLock, mLockedOffset,
          mLockedLength, mUpdateInProgress, mBufData, heap, glSize, queue,
          qOwner, acked, pc, call, ret, sent, lockCall, subLog, execLog,
          bufBytes, handleUse, lockHolders>>

\* ------------------------------------------------------------ helpers
\* (n+15) & ~15 on UINT.
AlignUp(n) ==
    LET s == (n + AlignMask) % Modulus
    IN  s - (s % (AlignMask + 1))

\* UINT subtraction.
USub(a, b) == (a - b + Modulus) % Modulus

\* Contents of a staging buffer: none (no buffer), the zeros init_common
\* fills it with, the caller's data of a resetBufferData of some length,
\* bytes that are not the caller's, or nothing written since the allocation.
NoBytes == [src |-> "none", len |-> 0]
Zeros == [src |-> "zeros", len |-> 0]
DataOf(length) == [src |-> "data", len |-> length]
Garbage == [src |-> "garbage", len |-> 0]
Uninitialized == [src |-> "uninitialized", len |-> 0]

\* What a read through the pointer Lock returns may see: any bytes at all
\* when nothing was written to the block.
Readable(bytes, length) ==
    IF bytes = Uninitialized THEN {Zeros, Garbage, DataOf(length)} ELSE {bytes}

\* One access to mBufferId: the thread, the function and the kind of access.
HandleAccess(by, in, how) == [by |-> by, in |-> in, how |-> how]

NoCall == [op |-> "none"]
NoRet == [code |-> "none"]

\* DataAllocator: a block that overlaps no live allocation.
NewAlloc(h) == CHOOSE i \in 1..(Cardinality(DOMAIN h) + 1) : i \notin DOMAIN h

\* The allocations some shared_ptr still refers to: mBufData and the data
\* of the pending commands.
Held(buf, q) ==
    (IF buf = Null THEN {} ELSE {buf})
    \cup {q[i].data : i \in {j \in 1..Len(q) : q[j].data # Null}}

\* DataDeallocator runs when the last shared_ptr to a block goes away.
Release(h, buf, q) == [i \in (DOMAIN h \cap Held(buf, q)) |-> h[i]]

InitBufferObjectCmd(p, data) ==
    [kind |-> "Init", prod |-> p, off |-> 0, len |-> 0, data |-> data,
     handle |-> Null, sync |-> TRUE, tag |-> Len(subLog) + 1]
DestroyBufferCmd(p, id) ==
    [kind |-> "Destroy", prod |-> p, off |-> 0, len |-> 0, data |-> Null,
     handle |-> id, sync |-> FALSE, tag |-> Len(subLog) + 1]
ResizeBufferCmd(p) ==
    [kind |-> "Resize", prod |-> p, off |-> 0, len |-> 0, data |-> Null,
     handle |-> Null, sync |-> FALSE, tag |-> Len(subLog) + 1]
LoadBufferDataCmd(p, offset, length, data) ==
    [kind |-> "Load", prod |-> p, off |-> offset, len |-> length, data |-> data,
     handle |-> Null, sync |-> FALSE, tag |-> Len(subLog) + 1]

\* ------------------------------------------------------ command queue
\* The guard is free, or the caller took it with lock().
GuardFree == qOwner = NoThread

\* A queue that puts the newest command first.
EnqueueFront(q, c) == <<c>> \o q

\* Appending a command: at the tail.
Enqueue(q, c) == Append(q, c)

\* The command the consumer takes, and what stays pending.
Oldest(q) == Head(q)
Rest(q) == Tail(q)

\* sendSync returns only once the consumer has executed the command.
SyncDone(p) == p \in acked

\* Commands the call at position `at` may still submit.
Owed(at) ==
    CASE at \in {"reset_lock", "reset_chk"} -> 2
      [] at \in {"reset_copy", "reset_send", "unlock_q"} -> 1
      [] at = "unlock_send" -> IF mLock = LT_ReadOnly THEN 0 ELSE 1
      [] OTHER -> 0

RECURSIVE SumOwed(_)
SumOwed(ps) ==
    IF ps = {} THEN 0
    ELSE LET p == CHOOSE x \in ps : TRUE
         IN  Owed(pc[p]) + SumOwed(ps \ {p})

\* The step stays within a run of at most n submitted commands, those the
\* calls under way still submit counted in.
Budget(n) == Len(subLog') + SumOwed(Producers)' <= n

\* Direct3DGLDevice::Direct3DGLDevice.
Direct3DGLDevice ==
    /\ devObj = "constructed"
    /\ mGLContext = Null /\ mThreadHdl = Null /\ mThreadId = 0
    /\ mPresentParams = [BackBufferCount |-> 0, lockable |-> FALSE,
                         EnableAutoDepthStencil |-> FALSE]
    /\ glContext = "none"
    /\ thread = "none" /\ msgQueue = FALSE /\ quitPosted = FALSE
    /\ threadHandle = "none"
    /\ devPc = "idle"
    /\ elapsed = 0

Init ==
    /\ Direct3DGLDevice
    /\ obj = "none"
    /\ mLength = 0 /\ mUsage = {} /\ mPool = D3DPOOL_DEFAULT /\ mBufferId = Null
    /\ mLock = LT_Unlocked /\ mLockedOffset = 0 /\ mLockedLength = 0
    /\ mUpdateInProgress = 0
    /\ mBufData = Null
    /\ heap = <<>>
    /\ glSize = -1
    /\ queue = <<>>
    /\ qOwner = NoThread
    /\ acked = {}
    /\ pc = [p \in Producers |-> "idle"]
    /\ call = [p \in Producers |-> NoCall]
    /\ ret = [p \in Producers |-> NoRet]
    /\ sent = [p \in Producers |-> <<>>]
    /\ lockCall = NoCall
    /\ subLog = <<>>
    /\ execLog = <<>>
    /\ bufBytes = NoBytes
    /\ handleUse = {HandleAccess("client", "D3DGLBufferObject", "write")}
    /\ lockHolders = {}

\* The caller's call ends with `r`.
Finish(p, r) ==
    /\ pc' = [pc EXCEPT ![p] = "ret"]
    /\ ret' = [ret EXCEPT ![p] = r]

\* The caller moves to `at`.
Goto(p, at) ==
    /\ pc' = [pc EXCEPT ![p] = at]
    /\ UNCHANGED ret

\* The caller appends c to the queue.
Submit(p, c) ==
    /\ queue' = Enqueue(queue, c)
    /\ subLog' = Append(subLog, [prod |-> c.prod, kind |-> c.kind])
    /\ sent' = [sent EXCEPT ![p] = Append(@, c)]

\* The caller is back in the client's code.
Return(p) ==
    /\ pc[p] = "ret"
    /\ pc' = [pc EXCEPT ![p] = "idle"]
    /\ call' = [call EXCEPT ![p] = NoCall]
    /\ ret' = [ret EXCEPT ![p] = NoRet]
    /\ sent' = [sent EXCEPT ![p] = <<>>]
    /\ UNCHANGED <<bufVars, glSize, queue, qOwner, acked, lockCall, subLog, execLog>>
    /\ UNCHANGED <<bufBytes, handleUse, lockHolders>>
    /\ UNCHANGED devVars

\* ------------------------------------------------------- init_common
\* init_common without the checks of the pool and the usage.
init_common_any(p, length, usage, pool) ==
    /\ pc[p] = "idle" /\ obj = "none"
    /\ call' = [call EXCEPT ![p] = [op |-> "init", length |-> length,
                                    usage |-> usage, pool |-> pool]]
    /\ mLength' = length /\ mUsage' = usage /\ mPool' = pool
    /\ LET b == NewAlloc(heap)
       IN  /\ obj' = "init"
           /\ mBufData' = b
           /\ heap' = (b :> AlignUp(length)) @@ heap
           /\ mUpdateInProgress' = 1
           /\ GuardFree
           /\ Submit(p, InitBufferObjectCmd(p, b))
           /\ Goto(p, "init_sync")
    /\ bufBytes' = Zeros
    /\ UNCHANGED <<mBufferId, mLock, mLockedOffset, mLockedLength, glSize,
                   qOwner, acked, lockCall, execLog, handleUse, lockHolders>>
    /\ UNCHANGED devVars

\* init_common up to the synchronous submission of the initialize command.
init_common(p, length, usage, pool) ==
    /\ pc[p] = "idle" /\ obj = "none"
    /\ call' = [call EXCEPT ![p] = [op |-> "init", length |-> length,
                                    usage |-> usage, pool |-> pool]]
    /\ mLength' = length /\ mUsage' = usage /\ mPool' = pool
    /\ IF pool = D3DPOOL_SCRATCH
          \/ (pool = D3DPOOL_MANAGED /\ D3DUSAGE_DYNAMIC \in usage)
       THEN /\ obj' = "failed"
            /\ Finish(p, [code |-> "false"])
            /\ UNCHANGED <<mBufData, heap, mUpdateInProgress, queue, subLog, sent>>
       ELSE LET b == NewAlloc(heap)
            IN  /\ obj' = "init"
                /\ mBufData' = b
                /\ heap' = (b :> AlignUp(length)) @@ heap
                /\ mUpdateInProgress' = 1
                /\ GuardFree
                /\ Submit(p, InitBufferObjectCmd(p, b))
                /\ Goto(p, "init_sync")
    /\ UNCHANGED <<mBufferId, mLock, mLockedOffset, mLockedLength, glSize,
                   qOwner, acked, lockCall, execLog>>
    /\ bufBytes' = IF pool = D3DPOOL_SCRATCH
                      \/ (pool = D3DPOOL_MANAGED /\ D3DUSAGE_DYNAMIC \in usage)
                   THEN bufBytes ELSE Zeros
    /\ UNCHANGED <<handleUse, lockHolders>>
    /\ UNCHANGED devVars

\* init_common with send in the place of sendSync: it does not wait.
init_return_async(p) ==
    /\ pc[p] = "init_sync"
    /\ acked' = acked \ {p}
    /\ obj' = "live"
    /\ Finish(p, [code |-> "true"])
    /\ UNCHANGED <<mLength, mUsage, mPool, mBufferId, mLock, mLockedOffset,
                   mLockedLength, mUpdateInProgress, mBufData, heap, glSize,
                   queue, qOwner, call, sent, lockCall, subLog, execLog>>
    /\ UNCHANGED <<bufBytes, handleUse, lockHolders>>
    /\ UNCHANGED devVars

\* sendSync has returned: init_common returns true.
init_return(p) ==
    /\ pc[p] = "init_sync"
    /\ SyncDone(p)
    /\ acked' = acked \ {p}
    /\ obj' = "live"
    /\ Finish(p, [code |-> "true"])
    /\ UNCHANGED <<mLength, mUsage, mPool, mBufferId, mLock, mLockedOffset,
                   mLockedLength, mUpdateInProgress, mBufData, heap, glSize,
                   queue, qOwner, call, sent, lockCall, subLog, execLog>>
    /\ UNCHANGED <<bufBytes, handleUse, lockHolders>>
    /\ UNCHANGED devVars

\* -------------------------------------------------------------- Lock
\* The length Lock works with: the whole buffer when the caller passes 0.
LockLength(length) == IF length = 0 THEN mLength ELSE length

\* The range test on the wrapped sum offset + length.
LockRejectsWrapped(offset, length, flags) ==
    \/ (length = 0 /\ offset > 0)
    \/ (offset + LockLength(length)) % Modulus > mLength
    \/ (D3DLOCK_READONLY \in flags /\ D3DUSAGE_WRITEONLY \in mUsage)

\* The argument checks without the one of the usage.
LockRejectsAnyUsage(offset, length, flags) ==
    \/ (length = 0 /\ offset > 0)
    \/ offset >= mLength
    \/ LockLength(length) > USub(mLength, offset)

\* Lock's argument checks: TRUE when the call is rejected.
LockRejects(offset, length, flags) ==
    \/ (length = 0 /\ offset > 0)
    \/ offset >= mLength
    \/ LockLength(length) > USub(mLength, offset)
    \/ (D3DLOCK_READONLY \in flags /\ D3DUSAGE_WRITEONLY \in mUsage)

\* The lock type a call asks for.
LockTypeOf(flags) == IF D3DLOCK_READONLY \in flags THEN LT_ReadOnly ELSE LT_Full

\* History: another call was made while the lock of `lc` was held.
Touched(lc) == IF lc = NoCall THEN lc ELSE [lc EXCEPT !.direct = FALSE]

\* Lock that stores the locked range before it checks its arguments.
LockEager(p, offset, length, flags) ==
    /\ pc[p] = "idle" /\ obj = "live"
    /\ call' = [call EXCEPT ![p] = [op |-> "Lock", offset |-> offset,
                                    length |-> length, flags |-> flags,
                                    len |-> LockLength(length), lock0 |-> mLock,
                                    data0 |-> mBufData, size0 |-> mLength,
                                    bytes0 |-> bufBytes, busy |-> FALSE]]
    /\ mLockedOffset' = offset
    /\ mLockedLength' = LockLength(length)
    /\ IF LockRejects(offset, length, flags)
       THEN Finish(p, [code |-> D3DERR_INVALIDCALL])
       ELSE Goto(p, "lock_cas")
    /\ lockCall' = Touched(lockCall)
    /\ UNCHANGED <<obj, mLength, mUsage, mPool, mBufferId, mLock,
                   mUpdateInProgress, mBufData, heap, glSize, queue, qOwner,
                   acked, sent, subLog, execLog, bufBytes, handleUse,
                   lockHolders>>
    /\ UNCHANGED devVars

\* Lock, the argument checks.
Lock(p, offset, length, flags) ==
    /\ pc[p] = "idle" /\ obj = "live"
    /\ call' = [call EXCEPT ![p] = [op |-> "Lock", offset |-> offset,
                                    length |-> length, flags |-> flags,
                                    len |-> LockLength(length), lock0 |-> mLock,
                                    data0 |-> mBufData, size0 |-> mLength,
                                    bytes0 |-> bufBytes, busy |-> FALSE]]
    /\ IF LockRejects(offset, length, flags)
       THEN Finish(p, [code |-> D3DERR_INVALIDCALL])
       ELSE Goto(p, "lock_cas")
    /\ lockCall' = Touched(lockCall)
    /\ UNCHANGED <<bufVars, glSize, queue, qOwner, acked, sent, subLog, execLog>>
    /\ UNCHANGED <<bufBytes, handleUse, lockHolders>>
    /\ UNCHANGED devVars

\* Lock with a plain store in the place of the compare-exchange.
LockCasStore(p) ==
    /\ pc[p] = "lock_cas"
    /\ mLock' = LockTypeOf(call[p].flags)
    /\ Goto(p, "lock_sync")
    /\ UNCHANGED <<obj, mLength, mUsage, mPool, mBufferId, mLockedOffset,
                   mLockedLength, mUpdateInProgress, mBufData, heap, glSize,
                   queue, qOwner, acked, call, sent, lockCall, subLog, execLog>>
    /\ lockHolders' = lockHolders \cup {p}
    /\ UNCHANGED <<bufBytes, handleUse>>
    /\ UNCHANGED devVars

\* Lock that waits for the buffer to be unlocked.
LockCasWait(p) ==
    /\ pc[p] = "lock_cas"
    /\ mLock = LT_Unlocked
    /\ mLock' = LockTypeOf(call[p].flags)
    /\ Goto(p, "lock_sync")
    /\ lockHolders' = lockHolders \cup {p}
    /\ UNCHANGED <<obj, mLength, mUsage, mPool, mBufferId, mLockedOffset,
                   mLockedLength, mUpdateInProgress, mBufData, heap, glSize,
                   queue, qOwner, acked, call, sent, lockCall, subLog, execLog,
                   bufBytes, handleUse>>
    /\ UNCHANGED devVars

\* Lock that takes over a read-only lock for writing.
LockCasUpgrade(p) ==
    /\ pc[p] = "lock_cas"
    /\ IF mLock = LT_Unlocked
          \/ (mLock = LT_ReadOnly /\ LockTypeOf(call[p].flags) = LT_Full)
       THEN /\ mLock' = LockTypeOf(call[p].flags)
            /\ Goto(p, "lock_sync")
            /\ lockHolders' = lockHolders \cup {p}
       ELSE /\ mLock' = mLock
            /\ Finish(p, [code |-> D3DERR_INVALIDCALL])
            /\ lockHolders' = lockHolders
    /\ UNCHANGED <<obj, mLength, mUsage, mPool, mBufferId, mLockedOffset,
                   mLockedLength, mUpdateInProgress, mBufData, heap, glSize,
                   queue, qOwner, acked, call, sent, lockCall, subLog, execLog,
                   bufBytes, handleUse>>
    /\ UNCHANGED devVars

\* Lock, mLock.compare_exchange_strong(LT_Unlocked, lt).
LockCas(p) ==
    /\ pc[p] = "lock_cas"
    /\ IF mLock = LT_Unlocked
       THEN /\ mLock' = LockTypeOf(call[p].flags)
            /\ Goto(p, "lock_sync")
       ELSE /\ mLock' = mLock
            /\ Finish(p, [code |-> D3DERR_INVALIDCALL])
    /\ lockCall' = IF mLock # LT_Unlocked /\ lockCall # NoCall
                   THEN [lockCall EXCEPT !.again = TRUE]
                   ELSE lockCall
    /\ UNCHANGED <<obj, mLength, mUsage, mPool, mBufferId, mLockedOffset,
                   mLockedLength, mUpdateInProgress, mBufData, heap, glSize,
                   queue, qOwner, acked, call, sent, subLog, execLog>>
    /\ lockHolders' = IF mLock = LT_Unlocked THEN lockHolders \cup {p} ELSE lockHolders
    /\ UNCHANGED <<bufBytes, handleUse>>
    /\ UNCHANGED devVars

\* Lock that keeps the staging buffer on a discard.
LockSyncKeep(p) ==
    /\ pc[p] = "lock_sync"
    /\ (D3DLOCK_DISCARD \notin call[p].flags
          /\ D3DLOCK_NOOVERWRITE \notin call[p].flags
          /\ D3DLOCK_READONLY \notin call[p].flags)
       => mUpdateInProgress = 0
    /\ call' = [call EXCEPT ![p].busy =
                   D3DLOCK_DISCARD \in call[p].flags /\ mUpdateInProgress > 0]
    /\ Goto(p, "lock_set")
    /\ UNCHANGED <<bufVars, glSize, queue, qOwner, acked, sent, lockCall,
                   subLog, execLog>>
    /\ UNCHANGED <<bufBytes, handleUse, lockHolders>>
    /\ UNCHANGED devVars

\* Lock that does not wait for the updates in flight.
LockSyncNoWait(p) ==
    /\ pc[p] = "lock_sync"
    /\ IF D3DLOCK_DISCARD \in call[p].flags /\ mUpdateInProgress > 0
       THEN LET b == NewAlloc(heap)
            IN  /\ mBufData' = b
                /\ heap' = Release((b :> AlignUp(mLength)) @@ heap, b, queue)
                /\ call' = [call EXCEPT ![p].busy = TRUE]
                /\ bufBytes' = Uninitialized
       ELSE UNCHANGED <<mBufData, heap, call, bufBytes>>
    /\ Goto(p, "lock_set")
    /\ UNCHANGED <<obj, mLength, mUsage, mPool, mBufferId, mLock, mLockedOffset,
                   mLockedLength, mUpdateInProgress, glSize, queue, qOwner,
                   acked, sent, lockCall, subLog, execLog, handleUse,
                   lockHolders>>
    /\ UNCHANGED devVars

\* Lock, discard or wait: a discard lock replaces the staging buffer when an
\* update is in flight; an overwriting lock polls until none is.
LockSync(p) ==
    /\ pc[p] = "lock_sync"
    /\ IF D3DLOCK_DISCARD \in call[p].flags
       THEN IF mUpdateInProgress > 0
            THEN LET b == NewAlloc(heap)
                 IN  /\ mBufData' = b
                     /\ heap' = Release((b :> AlignUp(mLength)) @@ heap, b, queue)
                     /\ call' = [call EXCEPT ![p].busy = TRUE]
            ELSE UNCHANGED <<mBufData, heap, call>>
       ELSE /\ (D3DLOCK_NOOVERWRITE \notin call[p].flags
                  /\ D3DLOCK_READONLY \notin call[p].flags)
               => mUpdateInProgress = 0
            /\ UNCHANGED <<mBufData, heap, call>>
    /\ Goto(p, "lock_set")
    /\ UNCHANGED <<obj, mLength, mUsage, mPool, mBufferId, mLock, mLockedOffset,
                   mLockedLength, mUpdateInProgress, glSize, queue, qOwner,
                   acked, sent, lockCall, subLog, execLog>>
    /\ IF D3DLOCK_DISCARD \in call[p].flags /\ mUpdateInProgress > 0
       THEN bufBytes' = Uninitialized
       ELSE bufBytes' = bufBytes
    /\ UNCHANGED <<handleUse, lockHolders>>
    /\ UNCHANGED devVars

\* Lock, the locked range and the pointer handed to the caller.
LockSet(p) ==
    /\ pc[p] = "lock_set"
    /\ mLockedOffset' = call[p].offset
    /\ mLockedLength' = call[p].len
    /\ Finish(p, [code |-> D3D_OK, data |-> mBufData, at |-> call[p].offset])
    /\ lockCall' = [op |-> "Lock", offset |-> call[p].offset,
                    length |-> call[p].length, len |-> call[p].len,
                    size |-> call[p].size0,
                    type |-> LockTypeOf(call[p].flags), again |-> FALSE,
                    direct |-> TRUE]
    /\ UNCHANGED <<obj, mLength, mUsage, mPool, mBufferId, mLock,
                   mUpdateInProgress, mBufData, heap, glSize, queue, qOwner,
                   acked, call, sent, subLog, execLog>>
    /\ UNCHANGED <<bufBytes, handleUse, lockHolders>>
    /\ UNCHANGED devVars

\* ------------------------------------------------------------ Unlock
\* Unlock without the test for an unlocked buffer.
UnlockAlways(p) ==
    /\ pc[p] = "idle" /\ obj = "live"
    /\ call' = [call EXCEPT ![p] = [op |-> "Unlock"]]
    /\ Goto(p, "unlock_send")
    /\ UNCHANGED <<bufVars, glSize, queue, qOwner, acked, sent, lockCall,
                   subLog, execLog>>
    /\ UNCHANGED <<bufBytes, handleUse, lockHolders>>
    /\ UNCHANGED devVars

\* Unlock, the test for an unlocked buffer.
Unlock(p) ==
    /\ pc[p] = "idle" /\ obj = "live"
    /\ call' = [call EXCEPT ![p] = [op |-> "Unlock"]]
    /\ IF mLock = LT_Unlocked
       THEN Finish(p, [code |-> D3DERR_INVALIDCALL])
       ELSE Goto(p, "unlock_send")
    /\ UNCHANGED <<bufVars, glSize, queue, qOwner, acked, sent, lockCall,
                   subLog, execLog>>
    /\ UNCHANGED <<bufBytes, handleUse, lockHolders>>
    /\ UNCHANGED devVars

\* Unlock that counts its upload twice.
UnlockCountTwice(p) ==
    /\ pc[p] = "unlock_send"
    /\ IF mLock # LT_ReadOnly
       THEN /\ mUpdateInProgress' = (mUpdateInProgress + 2) % Modulus
            /\ Goto(p, "unlock_q")
       ELSE /\ mUpdateInProgress' = mUpdateInProgress
            /\ Goto(p, "unlock_clear")
    /\ UNCHANGED <<obj, mLength, mUsage, mPool, mBufferId, mLock, mLockedOffset,
                   mLockedLength, mBufData, heap, glSize, queue, qOwner, acked,
                   call, sent, lockCall, subLog, execLog>>
    /\ UNCHANGED <<bufBytes, handleUse, lockHolders>>
    /\ UNCHANGED devVars

\* Unlock without the ++mUpdateInProgress.
UnlockCountSkip(p) ==
    /\ pc[p] = "unlock_send"
    /\ mUpdateInProgress' = mUpdateInProgress
    /\ IF mLock # LT_ReadOnly
       THEN Goto(p, "unlock_q")
       ELSE Goto(p, "unlock_clear")
    /\ UNCHANGED <<obj, mLength, mUsage, mPool, mBufferId, mLock, mLockedOffset,
                   mLockedLength, mBufData, heap, glSize, queue, qOwner, acked,
                   call, sent, lockCall, subLog, execLog>>
    /\ UNCHANGED <<bufBytes, handleUse, lockHolders>>
    /\ UNCHANGED devVars

\* Unlock, ++mUpdateInProgress for a lock that is not read-only.
UnlockCount(p) ==
    /\ pc[p] = "unlock_send"
    /\ IF mLock # LT_ReadOnly
       THEN /\ mUpdateInProgress' = (mUpdateInProgress + 1) % Modulus
            /\ Goto(p, "unlock_q")
       ELSE /\ mUpdateInProgress' = mUpdateInProgress
            /\ Goto(p, "unlock_clear")
    /\ UNCHANGED <<obj, mLength, mUsage, mPool, mBufferId, mLock, mLockedOffset,
                   mLockedLength, mBufData, heap, glSize, queue, qOwner, acked,
                   call, sent, lockCall, subLog, execLog>>
    /\ UNCHANGED <<bufBytes, handleUse, lockHolders>>
    /\ UNCHANGED devVars

\* Unlock that uploads the whole buffer.
UnlockSendWhole(p) ==
    /\ pc[p] = "unlock_q"
    /\ GuardFree
    /\ Submit(p, LoadBufferDataCmd(p, 0, mLength, mBufData))
    /\ Goto(p, "unlock_clear")
    /\ UNCHANGED <<bufVars, glSize, qOwner, acked, call, lockCall, execLog>>
    /\ UNCHANGED <<bufBytes, handleUse, lockHolders>>
    /\ UNCHANGED devVars

\* Unlock that reads mBufferId on the calling thread for its command.
UnlockSendHandle(p) ==
    /\ pc[p] = "unlock_q"
    /\ GuardFree
    /\ Submit(p, LoadBufferDataCmd(p, mLockedOffset, mLockedLength, mBufData))
    /\ Goto(p, "unlock_clear")
    /\ UNCHANGED <<bufVars, glSize, qOwner, acked, call, lockCall, execLog>>
    /\ handleUse' = handleUse \cup {HandleAccess("client", "Unlock", "read")}
    /\ UNCHANGED <<bufBytes, lockHolders>>
    /\ UNCHANGED devVars

\* Unlock, send<LoadBufferDataCmd>(this, mLockedOffset, mLockedLength, mBufData).
UnlockSend(p) ==
    /\ pc[p] = "unlock_q"
    /\ GuardFree
    /\ Submit(p, LoadBufferDataCmd(p, mLockedOffset, mLockedLength, mBufData))
    /\ Goto(p, "unlock_clear")
    /\ UNCHANGED <<bufVars, glSize, qOwner, acked, call, lockCall, execLog>>
    /\ UNCHANGED <<bufBytes, handleUse, lockHolders>>
    /\ UNCHANGED devVars

\* Unlock, the lock state goes back to unlocked.
UnlockClear(p) ==
    /\ pc[p] = "unlock_clear"
    /\ mLockedOffset' = 0
    /\ mLockedLength' = 0
    /\ mLock' = LT_Unlocked
    /\ Finish(p, [code |-> D3D_OK, lock |-> lockCall])
    /\ lockCall' = NoCall
    /\ UNCHANGED <<obj, mLength, mUsage, mPool, mBufferId, mUpdateInProgress,
                   mBufData, heap, glSize, queue, qOwner, acked, call, sent,
                   subLog, execLog>>
    /\ lockHolders' = {}
    /\ UNCHANGED <<bufBytes, handleUse>>
    /\ UNCHANGED devVars

\* --------------------------------------------------- resetBufferData
\* resetBufferData, ++mUpdateInProgress.
resetBufferData(p, length) ==
    /\ pc[p] = "idle" /\ obj = "live"
    /\ call' = [call EXCEPT ![p] = [op |-> "reset", length |-> length,
                                    cap0 |-> heap[mBufData]]]
    /\ mUpdateInProgress' = (mUpdateInProgress + 1) % Modulus
    /\ Goto(p, "reset_lock")
    /\ lockCall' = Touched(lockCall)
    /\ UNCHANGED <<obj, mLength, mUsage, mPool, mBufferId, mLock, mLockedOffset,
                   mLockedLength, mBufData, heap, glSize, queue, qOwner, acked,
                   sent, subLog, execLog>>
    /\ UNCHANGED <<bufBytes, handleUse, lockHolders>>
    /\ UNCHANGED devVars

\* resetBufferData without getQueue().lock().
ResetNoLock(p) ==
    /\ pc[p] = "reset_lock"
    /\ Goto(p, "reset_chk")
    /\ UNCHANGED <<bufVars, glSize, queue, qOwner, acked, call, sent, lockCall,
                   subLog, execLog>>
    /\ UNCHANGED <<bufBytes, handleUse, lockHolders>>
    /\ UNCHANGED devVars

\* resetBufferData, getQueue().lock().
ResetLock(p) ==
    /\ pc[p] = "reset_lock"
    /\ GuardFree
    /\ qOwner' = p
    /\ Goto(p, "reset_chk")
    /\ UNCHANGED <<bufVars, glSize, queue, acked, call, sent, lockCall,
                   subLog, execLog>>
    /\ UNCHANGED <<bufBytes, handleUse, lockHolders>>
    /\ UNCHANGED devVars

\* resetBufferData, a fresh staging buffer and a resize command when the
\* buffer grows or another update is in flight.
ResetRealloc(p) ==
    /\ pc[p] = "reset_chk"
    /\ IF call[p].length > mLength \/ mUpdateInProgress > 1
       THEN LET b == NewAlloc(heap)
            IN  /\ mBufData' = b
                /\ heap' = Release((b :> AlignUp(call[p].length)) @@ heap, b, queue)
                /\ Submit(p, ResizeBufferCmd(p))
       ELSE UNCHANGED <<mBufData, heap, queue, subLog, sent>>
    /\ Goto(p, "reset_copy")
    /\ UNCHANGED <<obj, mLength, mUsage, mPool, mBufferId, mLock, mLockedOffset,
                   mLockedLength, mUpdateInProgress, glSize, qOwner, acked,
                   call, lockCall, execLog>>
    /\ IF call[p].length > mLength \/ mUpdateInProgress > 1
       THEN bufBytes' = Uninitialized
       ELSE bufBytes' = bufBytes
    /\ UNCHANGED <<handleUse, lockHolders>>
    /\ UNCHANGED devVars

\* memcpy of `length` bytes of the caller's data into a block of `capacity`
\* bytes: past the end of the block the outcome is not defined.
Copied(length, capacity) ==
    IF length <= capacity THEN {DataOf(length)} ELSE {DataOf(length), Garbage}

\* resetBufferData, mLength = length and the copy into the staging buffer.
ResetCopy(p) ==
    /\ pc[p] = "reset_copy"
    /\ mLength' = call[p].length
    /\ Goto(p, "reset_send")
    /\ UNCHANGED <<obj, mUsage, mPool, mBufferId, mLock, mLockedOffset,
                   mLockedLength, mUpdateInProgress, mBufData, heap, glSize,
                   queue, qOwner, acked, call, sent, lockCall, subLog, execLog>>
    /\ bufBytes' \in Copied(call[p].length, heap[mBufData])
    /\ UNCHANGED <<handleUse, lockHolders>>
    /\ UNCHANGED devVars

\* resetBufferData, sendAndUnlock<LoadBufferDataCmd>(this, 0, mLength, mBufData).
ResetSend(p) ==
    /\ pc[p] = "reset_send"
    /\ Submit(p, LoadBufferDataCmd(p, 0, mLength, mBufData))
    /\ qOwner' = NoThread
    /\ Finish(p, [code |-> "void"])
    /\ UNCHANGED <<bufVars, glSize, acked, call, lockCall, execLog>>
    /\ UNCHANGED <<bufBytes, handleUse, lockHolders>>
    /\ UNCHANGED devVars

\* ------------------------------------------------------- destructor
\* The object is deleted when its last reference goes: no other thread is
\* inside one of its methods.
Unreferenced(p) == \A q \in Producers \ {p} : pc[q] = "idle"

\* ~D3DGLBufferObject, the destroy command.
Destructor(p) ==
    /\ pc[p] = "idle" /\ obj \in {"live", "failed"}
    /\ Unreferenced(p)
    /\ call' = [call EXCEPT ![p] = [op |-> "delete"]]
    /\ obj' = "dying"
    /\ IF mBufferId # Null
       THEN /\ GuardFree
            /\ Submit(p, DestroyBufferCmd(p, mBufferId))
       ELSE UNCHANGED <<queue, subLog, sent>>
    /\ Goto(p, "dtor_wait")
    /\ UNCHANGED <<mLength, mUsage, mPool, mBufferId, mLock, mLockedOffset,
                   mLockedLength, mUpdateInProgress, mBufData, heap, glSize,
                   qOwner, acked, lockCall, execLog>>
    /\ handleUse' = handleUse \cup {HandleAccess("client", "~D3DGLBufferObject", "read")}
    /\ UNCHANGED <<bufBytes, lockHolders>>
    /\ UNCHANGED devVars

\* ~D3DGLBufferObject without the wait for the updates in flight.
DestructorNoWait(p) ==
    /\ pc[p] = "dtor_wait"
    /\ mBufferId' = Null
    /\ mBufData' = Null
    /\ heap' = Release(heap, Null, queue)
    /\ obj' = "dead"
    /\ Finish(p, [code |-> "void"])
    /\ handleUse' = handleUse \cup {HandleAccess("client", "~D3DGLBufferObject", "write")}
    /\ bufBytes' = NoBytes
    /\ UNCHANGED <<mLength, mUsage, mPool, mLock, mLockedOffset, mLockedLength,
                   mUpdateInProgress, glSize, queue, qOwner, acked, call, sent,
                   lockCall, subLog, execLog, lockHolders>>
    /\ UNCHANGED devVars

\* ~D3DGLBufferObject, the wait for the updates in flight; then the members
\* go, mBufData with them.
DestructorWait(p) ==
    /\ pc[p] = "dtor_wait"
    /\ mUpdateInProgress = 0
    /\ mBufferId' = Null
    /\ mBufData' = Null
    /\ heap' = Release(heap, Null, queue)
    /\ obj' = "dead"
    /\ Finish(p, [code |-> "void"])
    /\ UNCHANGED <<mLength, mUsage, mPool, mLock, mLockedOffset, mLockedLength,
                   mUpdateInProgress, glSize, queue, qOwner, acked, call, sent,
                   lockCall, subLog, execLog>>
    /\ handleUse' = handleUse \cup {HandleAccess("client", "~D3DGLBufferObject", "write")}
    /\ bufBytes' = NoBytes
    /\ UNCHANGED lockHolders
    /\ UNCHANGED devVars

\* ---------------------------------------------------------- consumer
\* initGL: the GL buffer and its store; no update is in flight any more.
initGL ==
    /\ mBufferId' = 1
    /\ glSize' = AlignUp(mLength)
    /\ mUpdateInProgress' = 0
    /\ handleUse' = handleUse \cup {HandleAccess("consumer", "initGL", "write"),
                                    HandleAccess("consumer", "initGL", "read")}

\* resizeBufferGL: a new store of the current length.
resizeBufferGL ==
    /\ glSize' = AlignUp(mLength)
    /\ UNCHANGED <<mBufferId, mUpdateInProgress>>
    /\ handleUse' = handleUse \cup {HandleAccess("consumer", "resizeBufferGL", "read")}

\* loadBufferDataGL without the decrement of the counter.
loadBufferDataGLKeep(offset, length, data) ==
    /\ mUpdateInProgress' = mUpdateInProgress
    /\ UNCHANGED <<mBufferId, glSize>>
    /\ handleUse' = handleUse \cup {HandleAccess("consumer", "loadBufferDataGL", "read")}

\* loadBufferDataGL: the upload, and one update fewer in flight.
loadBufferDataGL(offset, length, data) ==
    /\ mUpdateInProgress' = USub(mUpdateInProgress, 1)
    /\ UNCHANGED <<mBufferId, glSize>>
    /\ handleUse' = handleUse \cup {HandleAccess("consumer", "loadBufferDataGL", "read")}

\* DestroyBufferCmd::execute: glDeleteBuffers.
destroyGL(id) ==
    /\ glSize' = -1
    /\ UNCHANGED <<mBufferId, mUpdateInProgress>>
    /\ UNCHANGED handleUse

\* The consumer takes the oldest pending command, executes it and signals
\* the producer that waits for it.
Execute ==
    /\ queue # <<>>
    /\ LET c == Oldest(queue)
       IN  /\ queue' = Rest(queue)
           /\ execLog' = Append(execLog, c.tag)
           /\ CASE c.kind = "Init" -> initGL
                [] c.kind = "Resize" -> resizeBufferGL
                [] c.kind = "Load" -> loadBufferDataGL(c.off, c.len, c.data)
                [] c.kind = "Destroy" -> destroyGL(c.handle)
           /\ heap' = Release(heap, mBufData, queue')
           /\ acked' = IF c.sync THEN acked \cup {c.prod} ELSE acked
    /\ UNCHANGED <<obj, mLength, mUsage, mPool, mLock, mLockedOffset,
                   mLockedLength, mBufData, qOwner, pc, call, ret, sent,
                   lockCall, subLog>>
    /\ UNCHANGED <<bufBytes, lockHolders>>
    /\ UNCHANGED devVars

\* ------------------------------------------------------ specifications
\* What one client thread may do next: start a call with arguments from
\* the given sets, take a step of the call it is in, or return from it.
Calls(p, limit, IA, LA, RL) ==
    \/ \E a \in IA : init_common(p, a[1], a[2], a[3]) /\ Budget(limit)
    \/ init_return(p)
    \/ \E a \in LA : Lock(p, a[1], a[2], a[3])
    \/ LockCas(p)
    \/ LockSync(p)
    \/ LockSet(p)
    \/ Unlock(p) /\ Budget(limit)
    \/ UnlockCount(p)
    \/ UnlockSend(p)
    \/ UnlockClear(p)
    \/ \E l \in RL : resetBufferData(p, l) /\ Budget(limit)
    \/ ResetLock(p)
    \/ ResetRealloc(p)
    \/ ResetCopy(p)
    \/ ResetSend(p)
    \/ Destructor(p) /\ Budget(limit)
    \/ DestructorWait(p)
    \/ Return(p)

\* Arguments of the constructions: <<length, usage, pool>>.
InitArgs ==
    {<<0, {}, D3DPOOL_DEFAULT>>,
     <<2, {}, D3DPOOL_DEFAULT>>,
     <<2, {D3DUSAGE_WRITEONLY}, D3DPOOL_DEFAULT>>,
     <<2, {D3DUSAGE_DYNAMIC}, D3DPOOL_MANAGED>>,
     <<2, {}, D3DPOOL_SCRATCH>>}
\* Lengths the client resets the buffer to.
ResetLengths == {1, 17}

\* Two client threads and the consumer; the calls take few arguments (the
\* client threads lock the whole buffer for writing).
InitArgsPar == {<<2, {}, D3DPOOL_DEFAULT>>, <<2, {}, D3DPOOL_SCRATCH>>}
LockArgsPar == {<<0, 0, {}>>}
ResetLengthsPar == {17}

Next ==
    \/ Execute
    \/ \E p \in Producers :
          Calls(p, MaxCmds, InitArgsPar, LockArgsPar, ResetLengthsPar)

Spec == Init /\ [][Next]_vars

\* One client thread and the consumer; Lock is called with every
\* combination of the sample offsets, lengths and flags.
UIntSamples == {0, 1, MaxUInt}
FlagSets == SUBSET {D3DLOCK_READONLY, D3DLOCK_NOOVERWRITE, D3DLOCK_DISCARD}
LockArgsSeq == UIntSamples \X UIntSamples \X FlagSets

NextSeq ==
    \/ Execute
    \/ Calls("p1", MaxCmdsSeq, InitArgs, LockArgsSeq, ResetLengths)

SpecSeq == Init /\ [][NextSeq]_vars

\* One client thread and the consumer; the lengths go up to the largest
\* UINT, and Lock takes the whole buffer, to read it or to write it.
InitArgsMem == {<<2, {}, D3DPOOL_DEFAULT>>, <<MaxUInt, {}, D3DPOOL_DEFAULT>>}
ResetLengthsMem == {1, 17, MaxUInt}
LockArgsMem ==
    {<<0, 0, {}>>, <<0, 0, {D3DLOCK_READONLY}>>, <<0, 0, {D3DLOCK_DISCARD}>>,
     <<0, 0, {D3DLOCK_READONLY, D3DLOCK_DISCARD}>>}

NextMem ==
    \/ Execute
    \/ Calls("p1", MaxCmdsSeq, InitArgsMem, LockArgsMem, ResetLengthsMem)

SpecMem == Init /\ [][NextMem]_vars

\* One client thread and the consumer, over runs long enough for two
\* resetBufferData calls of different lengths after the construction.
MaxCmdsGL == 5

NextGL ==
    \/ Execute
    \/ Calls("p1", MaxCmdsGL, InitArgsPar, LockArgsPar, ResetLengths)

SpecGL == Init /\ [][NextGL]_vars

\* ------------------------------------------------------------ device
\* What init is called with and what the window system answers: the number
\* of back buffers, the lockable-backbuffer flag, whether the formats are
\* known, and whether a pixel format and a GL context are obtained.
DeviceArgs ==
    [BackBufferCount : {0, 1, 2}, lockable : BOOLEAN,
     EnableAutoDepthStencil : BOOLEAN, formats : BOOLEAN, context : BOOLEAN]

\* The presentation parameters among the arguments.
ParamsOf(a) ==
    [BackBufferCount |-> a.BackBufferCount, lockable |-> a.lockable,
     EnableAutoDepthStencil |-> a.EnableAutoDepthStencil]

\* Direct3DGLDevice::init up to the creation of the GL context.
init(a) ==
    /\ devPc = "idle" /\ devObj = "constructed"
    /\ IF a.BackBufferCount > 1
       THEN /\ mPresentParams' = [ParamsOf(a) EXCEPT !.BackBufferCount = 1]
            /\ devObj' = "failed"
            /\ UNCHANGED <<mGLContext, glContext, devPc>>
       ELSE /\ mPresentParams' = ParamsOf(a)
            /\ IF a.lockable \/ ~a.formats \/ ~a.context
               THEN /\ devObj' = "failed"
                    /\ UNCHANGED <<mGLContext, glContext, devPc>>
               ELSE /\ mGLContext' = 1
                    /\ glContext' = "live"
                    /\ devObj' = "init"
                    /\ devPc' = "init_thread"
    /\ UNCHANGED <<mThreadHdl, mThreadId, thread, msgQueue, quitPosted,
                   threadHandle, elapsed>>
    /\ UNCHANGED vars

\* Direct3DGLDevice::init, CreateThread(..., thread_func, this, 0, &mThreadId):
\* the thread may be refused.
CreateThread ==
    /\ devPc = "init_thread"
    /\ \/ /\ thread' = "started"
          /\ threadHandle' = "open"
          /\ mThreadHdl' = 1 /\ mThreadId' = 1
          /\ devObj' = "ready"
       \/ /\ devObj' = "failed"
          /\ UNCHANGED <<thread, threadHandle, mThreadHdl, mThreadId>>
    /\ devPc' = "idle"
    /\ UNCHANGED <<mGLContext, mPresentParams, glContext, msgQueue,
                   quitPosted, elapsed>>
    /\ UNCHANGED vars

\* thread_func, ERR("Greetings from the thread!"): whether the output brings
\* the thread a message queue is not known from the sources.
thread_func ==
    /\ thread = "started"
    /\ thread' = "greeted"
    /\ msgQueue' \in BOOLEAN
    /\ UNCHANGED <<devObj, mGLContext, mThreadHdl, mThreadId, mPresentParams,
                   glContext, quitPosted, threadHandle, devPc, elapsed>>
    /\ UNCHANGED vars

\* thread_func, return 0: the thread exits, its message queue with it.
thread_return ==
    /\ thread = "greeted"
    /\ thread' = "exited"
    /\ msgQueue' = FALSE /\ quitPosted' = FALSE
    /\ UNCHANGED <<devObj, mGLContext, mThreadHdl, mThreadId, mPresentParams,
                   glContext, threadHandle, devPc, elapsed>>
    /\ UNCHANGED vars

\* PostThreadMessageW succeeds when the thread has a message queue.
PostThreadMessageW == msgQueue

\* ~Direct3DGLDevice, the WM_QUIT posted to the thread.
DeviceDestructor ==
    /\ devPc = "idle" /\ devObj \in {"constructed", "ready", "failed"}
    /\ devObj' = "dying"
    /\ IF mThreadHdl # Null
       THEN IF PostThreadMessageW
            THEN /\ quitPosted' = TRUE
                 /\ devPc' = "dtor_wait"
            ELSE /\ quitPosted' = quitPosted
                 /\ devPc' = "dtor_close"
       ELSE /\ quitPosted' = quitPosted
            /\ devPc' = "dtor_context"
    /\ elapsed' = 0
    /\ UNCHANGED <<mGLContext, mThreadHdl, mThreadId, mPresentParams,
                   glContext, thread, msgQueue, threadHandle>>
    /\ UNCHANGED vars

\* Time passes while the destructor is in WaitForSingleObject.
Tick ==
    /\ devPc = "dtor_wait"
    /\ thread # "exited"
    /\ elapsed < WaitTicks
    /\ elapsed' = elapsed + 1
    /\ UNCHANGED <<devObj, mGLContext, mThreadHdl, mThreadId, mPresentParams,
                   glContext, thread, msgQueue, quitPosted, threadHandle, devPc>>
    /\ UNCHANGED vars

\* ~Direct3DGLDevice, WaitForSingleObject(mThreadHdl, 5000) returns: the
\* thread has exited, or the time is up.
WaitForSingleObject ==
    /\ devPc = "dtor_wait"
    /\ thread = "exited" \/ elapsed = WaitTicks
    /\ devPc' = "dtor_close"
    /\ UNCHANGED <<devObj, mGLContext, mThreadHdl, mThreadId, mPresentParams,
                   glContext, thread, msgQueue, quitPosted, threadHandle,
                   elapsed>>
    /\ UNCHANGED vars

\* ~Direct3DGLDevice, CloseHandle(mThreadHdl).
CloseHandle ==
    /\ devPc = "dtor_close"
    /\ threadHandle' = "closed"
    /\ mThreadHdl' = Null /\ mThreadId' = 0
    /\ devPc' = "dtor_context"
    /\ UNCHANGED <<devObj, mGLContext, mPresentParams, glContext, thread,
                   msgQueue, quitPosted, elapsed>>
    /\ UNCHANGED vars

\* ~Direct3DGLDevice, wglDeleteContext(mGLContext) when there is a context.
wglDeleteContext ==
    /\ devPc = "dtor_context"
    /\ glContext' = IF mGLContext # Null THEN "deleted" ELSE glContext
    /\ mGLContext' = Null
    /\ devObj' = "dead"
    /\ devPc' = "done"
    /\ UNCHANGED <<mThreadHdl, mThreadId, mPresentParams, thread, msgQueue,
                   quitPosted, threadHandle, elapsed>>
    /\ UNCHANGED vars

\* The thread that owns the device, the dedicated thread and the clock.
NextDev ==
    \/ \E a \in DeviceArgs : init(a)
    \/ CreateThread
    \/ thread_func
    \/ thread_return
    \/ DeviceDestructor
    \/ Tick
    \/ WaitForSingleObject
    \/ CloseHandle
    \/ wglDeleteContext

SpecDev == Init /\ [][NextDev]_<<vars, devVars>>

\* The steps inside a call, and the return from it: what a client thread
\* does without a decision of the client.
Steps(p) ==
    \/ init_return(p)
    \/ LockCas(p)
    \/ LockSync(p)
    \/ LockSet(p)
    \/ UnlockCount(p)
    \/ UnlockSend(p)
    \/ UnlockClear(p)
    \/ ResetLock(p)
    \/ ResetRealloc(p)
    \/ ResetCopy(p)
    \/ ResetSend(p)
    \/ DestructorWait(p)
    \/ Return(p)

\* Two client threads and the consumer, every thread scheduled again and
\* again: the consumer keeps taking commands while some are pending, and a
\* client thread inside a call keeps running; whether a client starts
\* another call is up to the client.  (Execute always extends execLog and a
\* step of a client thread always moves its pc.)
SpecLive ==
    /\ Init /\ [][Next]_vars
    /\ WF_execLog(Execute)
    /\ \A p \in Producers : WF_pc(Steps(p))

\* ------------------------------------------------------------- claims
IsPrefix(a, b) == Len(a) <= Len(b) /\ SubSeq(b, 1, Len(a)) = a
Tags(q) == [i \in 1..Len(q) |-> q[i].tag]
\* The tags of p's commands among the tags in t, in t's order.
Of(p, t) == SelectSeq(t, LAMBDA x : subLog[x].prod = p)
AllTags == [i \in 1..Len(subLog) |-> i]

\* C1: the commands of one producer are executed in the order that producer
\* submitted them, whatever the submission mode, and the consumer always
\* takes the oldest pending command: the executed commands followed by the
\* pending ones are all the commands in submission order.
C1_SubmissionOrder ==
    /\ \A p \in Producers : IsPrefix(Of(p, execLog), Of(p, AllTags))
    /\ execLog \o Tags(queue) = AllTags

\* C1, reached: commands of both producers have been executed, a
\* synchronous one (Init), one of a locked span (Resize) and plain ones.
C1_Witness ==
    /\ Len(execLog) >= 4
    /\ {subLog[execLog[i]].prod : i \in 1..Len(execLog)} = Producers
    /\ {"Init", "Resize", "Load"} \subseteq
           {subLog[execLog[i]].kind : i \in 1..Len(execLog)}

\* The producer is back from a call to `op`.
Returned(p, op) == pc[p] = "ret" /\ call[p].op = op

\* C2: a synchronous submission returns only after the consumer has executed
\* that command: at the step where init_common returns true its initialize
\* command is among the executed ones, the GL buffer exists with its store,
\* and the in-flight counter is back to 0.
C2_SyncInit ==
    [][\A p \in Producers :
        (pc[p] = "init_sync" /\ pc'[p] = "ret" /\ ret'[p].code = "true") =>
            /\ Len(sent'[p]) = 1 /\ sent'[p][1].kind = "Init"
            /\ \E i \in 1..Len(execLog') : execLog'[i] = sent'[p][1].tag
            /\ mBufferId' # Null
            /\ glSize' = AlignUp(mLength')
            /\ mUpdateInProgress' = 0]_vars

\* C2, reached: init_common has returned true.
C2_Witness ==
    \E p \in Producers : Returned(p, "init") /\ ret[p].code = "true"

\* C3: the resize and the upload of one resetBufferData are neighbours in the
\* queue and in the execution order: whatever follows a resize command, in
\* submission order, is the upload of the same producer.
C3_LockedSpan ==
    /\ \A i \in 1..Len(subLog) :
          (subLog[i].kind = "Resize" /\ i < Len(subLog)) =>
              subLog[i + 1] = [prod |-> subLog[i].prod, kind |-> "Load"]
    /\ \A i \in 1..Len(queue) :
          (queue[i].kind = "Resize" /\ i < Len(queue)) =>
              /\ queue[i + 1].prod = queue[i].prod
              /\ queue[i + 1].kind = "Load" /\ queue[i + 1].off = 0
    /\ \A j \in 1..Len(execLog) :
          (subLog[execLog[j]].kind = "Resize" /\ j < Len(execLog)) =>
              /\ execLog[j + 1] = execLog[j] + 1
              /\ subLog[execLog[j + 1]].prod = subLog[execLog[j]].prod
              /\ subLog[execLog[j + 1]].kind = "Load"

\* C3, reached: one producer is between its resize and its upload while the
\* other producer has an upload to submit.
C3_Witness ==
    \E p \in Producers, q \in Producers :
        /\ p # q
        /\ pc[p] \in {"reset_copy", "reset_send"}
        /\ subLog # <<>>
        /\ subLog[Len(subLog)] = [prod |-> p, kind |-> "Resize"]
        /\ pc[q] = "unlock_q"

\* The one command p has submitted in its call is the upload of (off, len).
Uploaded(p, off, len) ==
    /\ Len(sent[p]) = 1
    /\ sent[p][1].kind = "Load"
    /\ sent[p][1].off = off
    /\ sent[p][1].len = len

\* C4, as the specification states it: a Lock of a valid (offset, length)
\* followed immediately by Unlock leaves the buffer unlocked and submits
\* exactly one upload whose offset and length are those of the Lock call.
C4_UploadsCallRange ==
    \A p \in Producers :
        (Returned(p, "Unlock") /\ ret[p].code = D3D_OK
           /\ ret[p].lock # NoCall /\ ret[p].lock.direct
           /\ ret[p].lock.offset + ret[p].lock.length <= ret[p].lock.size) =>
            /\ mLock = LT_Unlocked
            /\ Uploaded(p, ret[p].lock.offset, ret[p].lock.length)

\* C4, amended: an Unlock that succeeds leaves the buffer unlocked; after a
\* read-only Lock it submits no command, otherwise it submits exactly one
\* upload, of the Lock call's offset and length when that length is not 0 and
\* of offset 0 and the logical length at the Lock call when it is 0.
C4_UploadsLockedRange ==
    \A p \in Producers :
        (Returned(p, "Unlock") /\ ret[p].code = D3D_OK) =>
            /\ ret[p].lock # NoCall
            /\ mLock = LT_Unlocked /\ mLockedOffset = 0 /\ mLockedLength = 0
            /\ ret[p].lock.offset + ret[p].lock.length <= ret[p].lock.size
            /\ IF ret[p].lock.type = LT_ReadOnly
               THEN sent[p] = <<>>
               ELSE IF ret[p].lock.length # 0
                    THEN Uploaded(p, ret[p].lock.offset, ret[p].lock.length)
                    ELSE /\ ret[p].lock.offset = 0
                         /\ Uploaded(p, 0, ret[p].lock.size)

\* C4, reached: Unlock right after a writing Lock of a range in the middle of
\* the buffer.
C4_Witness ==
    \E p \in Producers :
        /\ Returned(p, "Unlock") /\ ret[p].code = D3D_OK
        /\ ret[p].lock # NoCall /\ ret[p].lock.direct
        /\ ret[p].lock.type = LT_Full
        /\ ret[p].lock.offset > 0 /\ ret[p].lock.length > 0
        /\ sent[p] # <<>>

\* C5, as the specification states it: Lock with length 0 and offset 0
\* succeeds on an unlocked buffer of any logical length (a read-only call on a
\* write-only buffer apart) and locks offset 0, length = logical length; Lock
\* with length 0 and offset > 0 fails.
C5_WholeBufferLock ==
    \A p \in Producers :
        (Returned(p, "Lock") /\ call[p].length = 0) =>
            IF call[p].offset > 0
            THEN ret[p].code = D3DERR_INVALIDCALL
            ELSE (call[p].lock0 = LT_Unlocked
                    /\ ~(D3DLOCK_READONLY \in call[p].flags
                           /\ D3DUSAGE_WRITEONLY \in mUsage)) =>
                     /\ ret[p].code = D3D_OK
                     /\ mLock = LockTypeOf(call[p].flags)
                     /\ mLockedOffset = 0
                     /\ mLockedLength = mLength

C7_UnlockUnlocked ==
    [][\A p \in Producers :
        (pc[p] = "idle" /\ pc'[p] # "idle" /\ call'[p].op = "Unlock"
           /\ mLock = LT_Unlocked) =>
            /\ pc'[p] = "ret"
            /\ ret'[p].code = D3DERR_INVALIDCALL
            /\ sent'[p] = <<>>
            /\ mUpdateInProgress' = mUpdateInProgress
            /\ UNCHANGED <<bufVars, queue, subLog>>]_vars

\* C7, reached: Unlock has failed on a buffer that was locked and unlocked
\* before.
C7_Witness ==
    \E p \in Producers :
        /\ Returned(p, "Unlock") /\ ret[p].code = D3DERR_INVALIDCALL
        /\ \E i \in 1..Len(subLog) : subLog[i].kind = "Load"
        /\ mLock = LT_Unlocked

\* A read-only Lock call on a buffer of write-only usage.
ReadOnlyOnWriteOnly(p) ==
    /\ call[p].op = "Lock"
    /\ D3DLOCK_READONLY \in call[p].flags
    /\ D3DUSAGE_WRITEONLY \in mUsage

\* C8: a read-only Lock of a buffer of write-only usage fails whatever the
\* offset, the length and the other flags, without a change of the lock
\* state: such a buffer is never locked read-only.
C8_ReadOnlyWriteOnly ==
    /\ \A p \in Producers :
          ReadOnlyOnWriteOnly(p) =>
              /\ pc[p] = "ret"
              /\ ret[p].code = D3DERR_INVALIDCALL
              /\ mLock = call[p].lock0
    /\ D3DUSAGE_WRITEONLY \in mUsage => mLock # LT_ReadOnly

\* C8, reached: a read-only Lock of a valid range has failed on an unlocked
\* write-only buffer.
C8_Witness ==
    \E p \in Producers :
        /\ ReadOnlyOnWriteOnly(p) /\ pc[p] = "ret"
        /\ call[p].lock0 = LT_Unlocked /\ mLock = LT_Unlocked
        /\ call[p].length > 0
        /\ call[p].offset + call[p].length <= mLength

\* C9: a Lock gets past its argument checks only if the sum of offset and
\* length, taken without wrap-around, is at most the logical length.
C9_RangeCheck ==
    \A p \in Producers :
        (call[p].op = "Lock"
           /\ (pc[p] \in {"lock_cas", "lock_sync", "lock_set"}
                 \/ (pc[p] = "ret" /\ ret[p].code = D3D_OK))) =>
            /\ call[p].offset + call[p].length <= mLength
            /\ call[p].offset + call[p].len <= mLength

\* C9, reached: a Lock has been rejected whose offset + length wraps around
\* to a value within the logical length.
C9_Witness ==
    \E p \in Producers :
        /\ Returned(p, "Lock") /\ ret[p].code = D3DERR_INVALIDCALL
        /\ call[p].lock0 = LT_Unlocked
        /\ call[p].length > 0
        /\ call[p].offset + call[p].length > MaxUInt
        /\ (call[p].offset + call[p].length) % Modulus <= mLength

\* A Lock call that writes over the data: no discard, no-overwrite or
\* read-only flag.
Overwrites(p) ==
    /\ call[p].op = "Lock"
    /\ call[p].flags \cap {D3DLOCK_DISCARD, D3DLOCK_NOOVERWRITE,
                            D3DLOCK_READONLY} = {}

\* C10: a discard Lock never waits, and when it finds an update in flight it
\* returns a new staging buffer, distinct from the one before the call; an
\* overwriting Lock cannot go on while an update is in flight, and returns,
\* once none is, the staging buffer of before the call.
C10_DiscardOrWait ==
    \A p \in Producers :
        /\ (pc[p] = "lock_sync" /\ D3DLOCK_DISCARD \in call[p].flags) =>
              ENABLED LockSync(p)
        /\ (Returned(p, "Lock") /\ ret[p].code = D3D_OK
              /\ D3DLOCK_DISCARD \in call[p].flags /\ call[p].busy) =>
              /\ ret[p].data # call[p].data0
              /\ ret[p].data = mBufData
              /\ \A i \in 1..Len(queue) : queue[i].data # ret[p].data
        /\ (pc[p] = "lock_sync" /\ Overwrites(p) /\ mUpdateInProgress # 0) =>
              ~ENABLED LockSync(p)
        /\ (Returned(p, "Lock") /\ ret[p].code = D3D_OK /\ Overwrites(p)) =>
              /\ mUpdateInProgress = 0
              /\ \A i \in 1..Len(queue) : queue[i].kind # "Load"
              /\ ret[p].data = call[p].data0
              /\ ret[p].data = mBufData

\* C10, reached: a discard Lock has returned a new staging buffer while the
\* update it found is still in flight.
C10_Witness ==
    \E p \in Producers :
        /\ Returned(p, "Lock") /\ ret[p].code = D3D_OK
        /\ D3DLOCK_DISCARD \in call[p].flags /\ call[p].busy
        /\ mUpdateInProgress > 0
        /\ \E i \in 1..Len(queue) : queue[i].data = call[p].data0

\* The commands that hold a pointer to the buffer object.
BackReferring == {"Init", "Resize", "Load"}
\* The initialize command was submitted: construction was not rejected.
Constructed == \E i \in 1..Len(subLog) : subLog[i].kind = "Init"

\* C11: the destructor returns, and the staging buffer and the object go,
\* only when the in-flight counter is 0; while the destructor waits the
\* object still owns its staging buffer, every pending command's data is
\* allocated, and once the destructor has returned no command that refers to
\* the object is pending or executed.
C11_DestructorWaits ==
    /\ []((obj = "dying" /\ Constructed) =>
             (mBufData # Null /\ mBufData \in DOMAIN heap))
    /\ [](\A i \in 1..Len(queue) :
             queue[i].data # Null => queue[i].data \in DOMAIN heap)
    /\ [](obj = "dead" =>
             \A i \in 1..Len(queue) : queue[i].kind \notin BackReferring)
    /\ [][(obj # "dead" /\ obj' = "dead") => mUpdateInProgress = 0]_vars
    /\ [][(obj = "dead" /\ execLog' # execLog) =>
             subLog[execLog'[Len(execLog')]].kind \notin BackReferring]_vars

\* C11, reached: the destructor has submitted the destroy command and waits
\* for an upload that is still pending.
C11_Witness ==
    \E p \in Producers :
        /\ pc[p] = "dtor_wait"
        /\ mUpdateInProgress > 0
        /\ \E i \in 1..Len(queue) : queue[i].kind = "Load"
        /\ \E i \in 1..Len(queue) : queue[i].kind = "Destroy"

\* The length rounded up to a multiple of 16, without wrap-around.
AlignedLength(n) == ((n + AlignMask) \div (AlignMask + 1)) * (AlignMask + 1)
\* No client thread is inside a call.
Quiescent == \A p \in Producers : pc[p] \in {"idle", "ret"}

\* C12, as the specification states it: when resetBufferData has grown the
\* buffer beyond the capacity of its staging buffer, the staging buffer holds
\* at least the new length rounded up to 16 bytes and the logical length is
\* the new length; and a read-only Lock (without discard) of the whole of a
\* buffer that was reset to its length shows the caller exactly that data.
C12_ResetGrows ==
    \A p \in Producers :
        /\ (Returned(p, "reset") /\ call[p].length > call[p].cap0) =>
              /\ mLength = call[p].length
              /\ mBufData \in DOMAIN heap
              /\ heap[mBufData] >= AlignedLength(call[p].length)
              /\ Readable(bufBytes, mLength) = {DataOf(call[p].length)}
        /\ (Returned(p, "Lock") /\ ret[p].code = D3D_OK
              /\ call[p].flags = {D3DLOCK_READONLY}
              /\ call[p].offset = 0 /\ call[p].length = 0
              /\ call[p].bytes0 = DataOf(call[p].size0)) =>
              /\ ret[p].data = mBufData /\ ret[p].at = 0
              /\ mLockedLength = mLength
              /\ Readable(bufBytes, mLength) = {DataOf(mLength)}

\* C18, as the specification states it: whenever no call is under way on a
\* constructed buffer, its staging buffer holds at least the logical length
\* rounded up to 16 bytes.
C18_StagingCapacity ==
    (obj = "live" /\ Quiescent) =>
        /\ mBufData \in DOMAIN heap
        /\ heap[mBufData] >= AlignedLength(mLength)

\* C13: the step in which a Lock or an Unlock returns the invalid-call code
\* changes nothing of the buffer and submits nothing, and nothing was changed
\* or submitted earlier in that call: lock state, locked offset and length,
\* logical length, staging buffer and its content and in-flight counter are
\* those of before the call.
C13_FailureKeepsState ==
    [][\A p \in Producers :
        (pc[p] # "ret" /\ pc'[p] = "ret"
           /\ call'[p].op \in {"Lock", "Unlock"}
           /\ ret'[p].code = D3DERR_INVALIDCALL) =>
            /\ UNCHANGED <<mLock, mLockedOffset, mLockedLength, mLength,
                           mBufData, heap, bufBytes, mUpdateInProgress,
                           queue, subLog>>
            /\ sent'[p] = <<>>
            /\ call'[p].op = "Lock" =>
                  /\ mLock' = call'[p].lock0
                  /\ mBufData' = call'[p].data0
                  /\ mLength' = call'[p].size0
                  /\ bufBytes' = call'[p].bytes0
                  /\ lockCall' # NoCall =>
                        /\ mLockedOffset' = lockCall'.offset
                        /\ mLockedLength' = lockCall'.len]_vars

\* C13, reached: a Lock has failed on a buffer that is locked from an offset
\* above 0 while an update is in flight.
C13_Witness ==
    \E p \in Producers :
        /\ Returned(p, "Lock") /\ ret[p].code = D3DERR_INVALIDCALL
        /\ call[p].lock0 # LT_Unlocked
        /\ mLockedOffset > 0
        /\ mUpdateInProgress > 0

\* The pool and the usage init_common does not accept.
Unacceptable(pool, usage) ==
    \/ pool = D3DPOOL_SCRATCH
    \/ (pool = D3DPOOL_MANAGED /\ D3DUSAGE_DYNAMIC \in usage)

\* C14: init_common returns false for the scratch pool and for the managed
\* pool with dynamic usage; the rejected object never has a staging buffer,
\* a command, an update in flight or a GL buffer, and its destructor submits
\* nothing and does not wait.
C14_RejectedConstruction ==
    /\ \A p \in Producers :
          (call[p].op = "init" /\ Unacceptable(call[p].pool, call[p].usage)) =>
              /\ pc[p] = "ret"
              /\ ret[p].code = "false"
              /\ sent[p] = <<>>
    /\ (obj # "none" /\ Unacceptable(mPool, mUsage)) =>
          /\ obj \in {"failed", "dying", "dead"}
          /\ mBufData = Null /\ heap = <<>> /\ bufBytes = NoBytes
          /\ subLog = <<>> /\ queue = <<>>
          /\ mUpdateInProgress = 0
          /\ mBufferId = Null
          /\ \A p \in Producers :
                pc[p] = "dtor_wait" => ENABLED DestructorWait(p)

\* C14, reached: a buffer of the managed pool with dynamic usage was rejected
\* and has been destroyed.
C14_Witness ==
    /\ obj = "dead"
    /\ mPool = D3DPOOL_MANAGED /\ D3DUSAGE_DYNAMIC \in mUsage
    /\ subLog = <<>>

LockTransitions ==
    {<<LT_Unlocked, LT_ReadOnly>>, <<LT_Unlocked, LT_Full>>,
     <<LT_ReadOnly, LT_Unlocked>>, <<LT_Full, LT_Unlocked>>}

PendingUpdates == {i \in 1..Len(queue) : queue[i].kind \in {"Init", "Load"}}
\* The calls that have raised the counter and not yet submitted their upload.
Announced ==
    {p \in Producers :
        pc[p] \in {"reset_lock", "reset_chk", "reset_copy", "reset_send",
                   "unlock_q"}}

\* C17: the in-flight counter is the number of pending initialize and upload
\* commands plus the number of calls that have raised it and are about to
\* submit their upload: it is raised before the upload is submitted, lowered
\* once by each execution, never below 0, and with no call under way it is
\* the number of commands submitted and not yet executed.
C17_InFlightCounter ==
    /\ [](mUpdateInProgress =
             Cardinality(PendingUpdates) + Cardinality(Announced))
    /\ [](Quiescent => mUpdateInProgress = Cardinality(PendingUpdates))
    /\ [][\A i \in 1..Len(queue) :
            (queue[i].kind = "Load" /\ execLog' # execLog /\ i = 1) =>
                /\ mUpdateInProgress >= 1
                /\ mUpdateInProgress' = mUpdateInProgress - 1]_vars
    /\ [][(Len(subLog') > Len(subLog)
             /\ subLog'[Len(subLog')].kind = "Load") =>
                /\ mUpdateInProgress >= 1
                /\ mUpdateInProgress' = mUpdateInProgress]_vars

\* C17, reached: no call is under way and two uploads are pending.
C17_Witness ==
    /\ Quiescent
    /\ obj = "live"
    /\ mUpdateInProgress = 2
    /\ Cardinality({i \in 1..Len(queue) : queue[i].kind = "Load"}) = 2

\* C19, as the specification states it: mBufferId is non-null only between a
\* successful initialization and the destruction, and every read and write of
\* it is made by the consumer thread: none by the constructor, Lock, Unlock,
\* resetBufferData or the destructor.
C19_HandleConfined ==
    /\ mBufferId # Null => obj \in {"init", "live", "dying"}
    /\ \A a \in handleUse : a.by = "consumer"

\* The methods that touch mBufferId on the thread of their caller.
ClientHandleMethods == {"D3DGLBufferObject", "~D3DGLBufferObject"}

\* C19, amended: mBufferId is non-null only between the initGL of a
\* successful initialization and the end of the destructor; only initGL, on
\* the consumer thread, writes a non-null handle, and the consumer reads it in
\* initGL, resizeBufferGL and loadBufferDataGL; on a client thread only the
\* constructor (which writes 0) and the destructor (which tests the handle and
\* writes 0) touch it: init_common, Lock, Unlock and resetBufferData never
\* read or write it.
C19_HandleOwnership ==
    /\ mBufferId # Null => obj \in {"init", "live", "dying"}
    /\ mBufferId # Null => HandleAccess("consumer", "initGL", "write") \in handleUse
    /\ obj \in {"none", "failed", "dead"} => mBufferId = Null
    /\ \A a \in handleUse :
          /\ a.by = "client" => a.in \in ClientHandleMethods
          /\ (a.by = "client" /\ a.in = "D3DGLBufferObject") => a.how = "write"
          /\ a.by = "consumer" =>
                a.in \in {"initGL", "resizeBufferGL", "loadBufferDataGL"}
          /\ (a.by = "consumer" /\ a.how = "write") => a.in = "initGL"

\* C19, reached: a buffer that was initialized, locked, unlocked, resized and
\* destroyed: the consumer wrote and read the handle, the destructor tested
\* and cleared it.
C19_Witness ==
    /\ obj = "dead" /\ mBufferId = Null
    /\ HandleAccess("consumer", "initGL", "write") \in handleUse
    /\ HandleAccess("consumer", "loadBufferDataGL", "read") \in handleUse
    /\ HandleAccess("consumer", "resizeBufferGL", "read") \in handleUse
    /\ HandleAccess("client", "~D3DGLBufferObject", "read") \in handleUse
    /\ HandleAccess("client", "~D3DGLBufferObject", "write") \in handleUse

\* C20: Unlock of a lock that is not read-only increments the in-flight
\* counter, then submits, without waiting for it, one upload command of
\* exactly the locked range of the staging buffer, then sets the lock state
\* to Unlocked and returns D3D_OK; Unlock of a read-only lock goes to that
\* last step with the counter and the queue as they were.
C20_UnlockSteps ==
    [][\A p \in Producers :
        /\ (pc[p] = "unlock_send" /\ pc'[p] # "unlock_send") =>
              /\ queue' = queue /\ subLog' = subLog /\ mLock' = mLock
              /\ IF mLock # LT_ReadOnly
                 THEN /\ mUpdateInProgress' = (mUpdateInProgress + 1) % Modulus
                      /\ pc'[p] = "unlock_q"
                 ELSE /\ mUpdateInProgress' = mUpdateInProgress
                      /\ pc'[p] = "unlock_clear"
        /\ (pc[p] = "unlock_q" /\ pc'[p] # "unlock_q") =>
              /\ mLock # LT_ReadOnly
              /\ pc'[p] = "unlock_clear"
              /\ Len(queue') = Len(queue) + 1
              /\ LET c == queue'[Len(queue')]
                 IN  /\ c.kind = "Load" /\ c.prod = p /\ ~c.sync
                     /\ c.off = mLockedOffset /\ c.len = mLockedLength
                     /\ c.data = mBufData
              /\ mUpdateInProgress' = mUpdateInProgress
              /\ mLock' = mLock
        /\ (pc[p] = "unlock_clear" /\ pc'[p] # "unlock_clear") =>
              /\ mLock' = LT_Unlocked
              /\ pc'[p] = "ret" /\ ret'[p].code = D3D_OK
              /\ queue' = queue /\ subLog' = subLog
              /\ mUpdateInProgress' = mUpdateInProgress]_vars

\* C20, reached: an Unlock of a writing lock has returned while its upload
\* is still pending and counted, and before it an Unlock of a read-only lock
\* returned with nothing submitted.
C20_Witness ==
    \E p \in Producers :
        /\ Returned(p, "Unlock") /\ ret[p].code = D3D_OK
        /\ ret[p].lock # NoCall /\ ret[p].lock.type = LT_Full
        /\ mLock = LT_Unlocked
        /\ queue # <<>> /\ queue[Len(queue)].kind = "Load"
        /\ mUpdateInProgress > 0

\* A Lock call whose caller may write over any byte of the locked range:
\* neither read-only nor no-overwrite.
NeedsOverwriteSafety(p) ==
    /\ call[p].op = "Lock"
    /\ D3DLOCK_READONLY \notin call[p].flags
    /\ D3DLOCK_NOOVERWRITE \notin call[p].flags

\* The allocations the pending commands hold.
PendingData == {queue[i].data : i \in 1..Len(queue)} \ {Null}

\* C21: with one client thread, when a Lock that is neither read-only nor
\* no-overwrite has returned D3D_OK, no pending command holds the staging
\* allocation its pointer points into; the in-flight counter is 0 or the
\* allocation is one the call made itself (it is not the staging buffer of
\* before the call), and with a counter of 0 no upload is pending at all.
C21_OverwriteSafety ==
    \A p \in Producers :
        (Returned(p, "Lock") /\ ret[p].code = D3D_OK
           /\ NeedsOverwriteSafety(p)) =>
            /\ ret[p].data = mBufData
            /\ ret[p].data \notin PendingData
            /\ ret[p].data \in DOMAIN heap
            /\ mUpdateInProgress = 0 \/ ret[p].data # call[p].data0
            /\ mUpdateInProgress = 0 =>
                 \A i \in 1..Len(queue) : queue[i].kind # "Load"

\* C21, reached: a discard Lock that found no update in flight has returned
\* the staging buffer of before the call, after an upload from that very
\* buffer was executed.
C21_Witness ==
    \E p \in Producers :
        /\ Returned(p, "Lock") /\ ret[p].code = D3D_OK
        /\ call[p].flags = {D3DLOCK_DISCARD} /\ ~call[p].busy
        /\ ret[p].data = call[p].data0
        /\ \E i \in 1..Len(execLog) : subLog[execLog[i]].kind = "Load"

WaitsOnCounter(p) == pc[p] \in {"lock_sync", "dtor_wait"}

\* The command with tag n has been executed.
Executed(n) == \E i \in 1..Len(execLog) : execLog[i] = n

\* C23: with the consumer and the client threads scheduled fairly, every
\* submitted command is eventually executed; a producer in the wait of Lock
\* eventually goes on, and a producer in the wait of the destructor eventually
\* finishes it, the in-flight counter being 0 then; the guard of the queue is
\* held only between lock() and sendAndUnlock of resetBufferData, never by a
\* producer that waits on the in-flight counter.
C23_EventuallyExecuted ==
    /\ \A n \in 1..MaxCmds : (Len(subLog) >= n) ~> Executed(n)
    /\ \A p \in Producers : (pc[p] = "lock_sync") ~> (pc[p] = "lock_set")
    /\ \A p \in Producers :
          (pc[p] = "dtor_wait") ~> (obj = "dead" /\ mUpdateInProgress = 0)
    /\ [](\A p \in Producers :
             /\ WaitsOnCounter(p) => qOwner # p
             /\ qOwner = p => pc[p] \in {"reset_chk", "reset_copy", "reset_send"})

\* C23, reached: a writing Lock waits on the in-flight counter while an
\* upload is pending.
C23_Witness ==
    \E p \in Producers :
        /\ pc[p] = "lock_sync" /\ Overwrites(p)
        /\ mUpdateInProgress > 0
        /\ \E i \in 1..Len(queue) : queue[i].kind = "Load"
        /\ ~ENABLED LockSync(p)

\* C24, as the specification states it: a construction that init_common
\* rejects (scratch pool, or managed pool with dynamic usage) changes nothing
\* of the object: the logical length, the usage flags and the pool are after
\* the call what they were before it.
C24_RejectionKeepsFields ==
    [][\A p \in Producers :
        (pc[p] = "idle" /\ pc'[p] = "ret" /\ call'[p].op = "init"
           /\ ret'[p].code = "false") =>
            /\ mLength' = mLength
            /\ mUsage' = mUsage
            /\ mPool' = mPool]_vars

\* C25, as the specification states it: when the consumer executes an upload
\* command, the range of the command lies within the data store the GL buffer
\* was last given (by initGL or by the last resizeBufferGL executed).
C25_UploadWithinStore ==
    [][(queue # <<>> /\ execLog' # execLog /\ Oldest(queue).kind = "Load") =>
          Oldest(queue).off + Oldest(queue).len <= glSize]_vars

\* C26, as the specification states it: while the live buffer is locked and
\* no call is under way, the locked range lies within the logical length and the
\* logical length within the capacity of the staging buffer, a
\* resetBufferData between Lock and Unlock included; and the upload Unlock
\* submits lies within the allocation it carries.
C26_LockedRangeWithin ==
    /\ (obj = "live" /\ mLock # LT_Unlocked /\ Quiescent) =>
          /\ mLockedOffset + mLockedLength <= mLength
          /\ mLength <= heap[mBufData]
    /\ \A p \in Producers :
          pc[p] = "unlock_q" =>
              mLockedOffset + mLockedLength <= heap[mBufData]

\* C27, as the specification states it: a read-only Lock that succeeds,
\* whatever its other flags, returns with the staging buffer the same
\* allocation holding the same bytes as before the call, and the Unlock of a
\* read-only lock changes neither.
C27_ReadOnlyKeepsContents ==
    /\ [](\A p \in Producers :
             (Returned(p, "Lock") /\ ret[p].code = D3D_OK
                /\ D3DLOCK_READONLY \in call[p].flags) =>
                 /\ mBufData = call[p].data0
                 /\ ret[p].data = call[p].data0
                 /\ bufBytes = call[p].bytes0)
    /\ [][\A p \in Producers :
            (call[p].op = "Unlock" /\ pc'[p] # pc[p]
               /\ mLock = LT_ReadOnly) =>
                /\ mBufData' = mBufData
                /\ heap' = heap
                /\ bufBytes' = bufBytes]_vars

\* The Unlock calls that are past the test for an unlocked buffer.
Unlocking == {p \in Producers : pc[p] \in {"unlock_send", "unlock_q", "unlock_clear"}}

\* C28, as the specification states it: of the Unlock calls that threads make
\* together on a buffer that holds one lock, one gets past the test for an
\* unlocked buffer and the others fail there; so every Unlock that returns
\* D3D_OK ends a lock that was still held, and one lock gives at most one
\* upload command and one increment of the in-flight counter.
C28_OneUnlockWins ==
    /\ [](Cardinality(Unlocking) <= 1)
    /\ [][\A p \in Producers :
            (pc[p] = "unlock_clear" /\ pc'[p] = "ret") =>
                mLock # LT_Unlocked]_vars

\* The dedicated thread was created and has not exited.
ThreadRunning == thread \in {"started", "greeted"}

\* C29, as the specification states it: when a device whose dedicated thread
\* was created is destroyed, the GL context is never deleted while that
\* thread is still running.
C29_ContextOutlivesThread ==
    (threadHandle # "none" /\ glContext = "deleted") => ~ThreadRunning

====
